---- MODULE Spec2Model ----
(***************************************************************************)
(* pandas-plink BED transcoder: read_bed_chunk (_bed_reader.c) and         *)
(* write_bed_header / write_bed_chunk (_bed_writer.c).                     *)
(*                                                                         *)
(* The file at `filepath` is a byte sequence (or absent).  Every call is   *)
(* split at its stdio calls, so that each exit path of the C code is a     *)
(* disjunct of an action.  The stdio calls whose result the code tests     *)
(* (fopen, malloc, fread, fwrite) may fail; a byte whose fwrite returned 1 *)
(* is in the file (fclose, whose result the code ignores, flushes it).     *)
(* The build decides whether assert() is compiled in (ndebug) and whether  *)
(* plain char is signed (charSigned).  The target is little-endian with    *)
(* 8-bit bytes, so sizeof(uint64_t) is 8 and the assertion of line 31 of   *)
(* the reader fails whenever assert() is compiled in: the call aborts.     *)
(*                                                                         *)
(* Spec      the three entry points, called in any order on one path       *)
(* SpecRead  read_bed_chunk on every window of a written file              *)
(* SpecRemap the remap of the reader and of the writer on single bytes     *)
(***************************************************************************)
EXTENDS Integers, Sequences, FiniteSets, TLC

\* ------------------------------------------------------------------ bounds
\* Largest row count and column count of a matrix passed to a call.
MaxRows == 2
MaxCols == 6

\* ------------------------------------------------------- program constants
HeaderSize == 3
SizeofUint64 == 8
SizeofChar == 1
\* Content of an element of the caller's out buffer before the call.
Unwritten == -1

\* -------------------------------------------------------- bit arithmetic
RECURSIVE BitAnd(_, _)
BitAnd(a, b) ==
    IF a = 0 \/ b = 0 THEN 0
    ELSE (a % 2) * (b % 2) + 2 * BitAnd(a \div 2, b \div 2)

RECURSIVE BitOr(_, _)
BitOr(a, b) ==
    IF a = 0 THEN b
    ELSE IF b = 0 THEN a
    ELSE (IF a % 2 = 1 \/ b % 2 = 1 THEN 1 ELSE 0) + 2 * BitOr(a \div 2, b \div 2)

RECURSIVE BitXor(_, _)
BitXor(a, b) ==
    IF a = 0 THEN b
    ELSE IF b = 0 THEN a
    ELSE ((a + b) % 2) + 2 * BitXor(a \div 2, b \div 2)

\* ~x of a value promoted to int, seen through its low 8 bits.
BitNot(x) == 255 - x

MIN(a, b) == IF a > b THEN b ELSE a

\* p >>= 2 on a char holding bit pattern p: the shift is done on the promoted
\* int, so a signed char with its top bit set shifts ones in.
ShiftRightChar(p, signed) ==
    IF signed /\ p >= 128 THEN (p \div 4) + 192 ELSE p \div 4

\* ---------------------------------------------------------------- reader
\* Lines 84-90: the four remapped codes of source byte b, as one char.
UnpackByte_dropcarry(b) ==
    LET b0 == BitAnd(b, 85)
        b1 == BitAnd(b, 170) \div 2
    IN  BitXor(b0, b1)

UnpackByte(b) ==
    LET b0 == BitAnd(b, 85)
        b1 == BitAnd(b, 170) \div 2
        p0 == BitXor(b0, b1)
        p1 == (BitAnd(BitOr(b0, b1), b0) * 2) % 256
    IN  BitOr(p0, p1)

\* Lines 92-96: the value stored for the j-th column of a group: p0 & 3 after
\* j shifts.
RECURSIVE ShiftedChar(_, _, _)
ShiftedChar(p, j, signed) ==
    IF j = 0 THEN p ELSE ShiftedChar(ShiftRightChar(p, signed), j - 1, signed)

GroupValue(b, j, signed) == BitAnd(ShiftedChar(UnpackByte(b), j, signed), 3)

\* ---------------------------------------------------------------- writer
\* The claimed remap (1 <-> 2 swapped, 0 and 3 fixed), positioned like convert.
convert_swap12(v) ==
    (CASE v % 4 = 1 -> 2 [] v % 4 = 2 -> 1 [] OTHER -> v % 4) * 64

convert(v) ==
    LET x == (v \div 2) % 2
        y == v % 2
        new_x == BitOr(BitAnd(x, BitNot(y)), BitAnd(BitNot(x), y))
        new_y == x
    IN  ((new_x * 2 + new_y) * 64) % 256

\* data[r * strides[0] + c * strides[1]]; buffers are 1-indexed sequences here.
DataAt(d, strides, r, c) == d[r * strides[1] + c * strides[2] + 1]

\* Lines 64-70: the byte of the full group starting at column c.
FullGroupByte(d, strides, r, c) ==
    LET s0 == convert(DataAt(d, strides, r, c + 0)) \div 4
        s1 == BitOr(s0, convert(DataAt(d, strides, r, c + 1))) \div 4
        s2 == BitOr(s1, convert(DataAt(d, strides, r, c + 2))) \div 4
    IN  BitOr(s2, convert(DataAt(d, strides, r, c + 3)))

\* Lines 81-85: the accumulator after the first i columns of the partial group.
RECURSIVE PartialAcc(_, _, _, _, _)
PartialAcc(d, strides, r, c, i) ==
    IF i = 0 THEN 0
    ELSE BitOr(PartialAcc(d, strides, r, c, i - 1) \div 4,
               convert(DataAt(d, strides, r, c + i - 1)))

RECURSIVE Pow4(_)
Pow4(n) == IF n = 0 THEN 1 ELSE 4 * Pow4(n - 1)

\* Lines 80-86: the byte of the final group of k = ncols % 4 columns.
PartialByte_noshift(d, strides, r, c, k) == PartialAcc(d, strides, r, c, k)

PartialByte(d, strides, r, c, k) ==
    PartialAcc(d, strides, r, c, k) \div Pow4(4 - k)

\* Lines 61-93: the bytes write_bed_chunk passes to fwrite for row r, in order.
RECURSIVE FullGroups(_, _, _, _, _)
FullGroups(d, strides, r, c, ncols) ==
    IF c < ncols - (ncols % 4)
    THEN <<FullGroupByte(d, strides, r, c)>> \o FullGroups(d, strides, r, c + 4, ncols)
    ELSE <<>>

RowBytes(d, strides, r, ncols) ==
    FullGroups(d, strides, r, 0, ncols)
      \o (IF ncols % 4 > 0
          THEN <<PartialByte(d, strides, r, ncols - (ncols % 4), ncols % 4)>>
          ELSE <<>>)

\* ------------------------------------------------------- reader geometry
\* Line 36.
RowChunk(col_start, col_end) == (col_end - col_start + 3) \div 4
\* Line 38.
RowSize(ncols) == (ncols + 3) \div 4

\* Line 59: the offset fseek moves to for row r.
SeekOffset_rowchunk(a, r) ==
    HeaderSize + r * RowChunk(a.col_start, a.col_end) + a.col_start \div 4

SeekOffset(a, r) == HeaderSize + r * RowSize(a.ncols) + a.col_start \div 4

\* Line 61: fread fills buff when row_chunk bytes are there.
BytesThere(f, a, r) ==
    SeekOffset(a, r) + RowChunk(a.col_start, a.col_end) <= Len(f)

Buff(f, a, r) ==
    SubSeq(f, SeekOffset(a, r) + 1, SeekOffset(a, r) + RowChunk(a.col_start, a.col_end))

\* Line 94: the index written for row r, column c.
OutIndex(a, r, c) ==
    (r - a.row_start) * a.strides[1] + (c - a.col_start) * a.strides[2] + 1

\* Lines 92-96: the inner loop, from column c up to ce, p0 being shifted.
RECURSIVE DecodeGroup(_, _, _, _, _, _, _)
DecodeGroup(o, p0, c, ce, a, r, signed) ==
    IF c < ce
    THEN DecodeGroup([o EXCEPT ![OutIndex(a, r, c)] = BitAnd(p0, 3)],
                     ShiftRightChar(p0, signed), c + 1, ce, a, r, signed)
    ELSE o

\* Lines 80-97: the outer loop of one row, from column c.
RECURSIVE DecodeRow(_, _, _, _, _, _)
DecodeRow(o, buff, c, a, r, signed) ==
    IF c < a.col_end
    THEN LET b  == buff[(c - a.col_start) \div 4 + 1]
             ce == MIN(c + 4, a.col_end)
         IN  DecodeRow(DecodeGroup(o, UnpackByte(b), c, ce, a, r, signed),
                       buff, ce, a, r, signed)
    ELSE o

\* ------------------------------------------------------------------ state
VARIABLES
    ndebug,      \* build: NDEBUG defined, assert() compiled out
    charSigned,  \* build: plain char is a signed type
    held,        \* the caller's matrix: its row and column counts, content and layout
    fileExists,  \* the file at filepath exists
    file,        \* its bytes
    chunks,      \* the write_bed_chunk calls since the last write_bed_header (2
                 \* stands for two or more) when that call and all of them
                 \* returned 0; -1 otherwise
    pc,          \* position of the running call; "returned", "idle" between calls
    op,          \* the call that runs or has just returned
    status,      \* return value of the call that has just returned
    rd,          \* read_bed_chunk's arguments
    out,         \* the caller's output buffer
    row,         \* read_bed_chunk's r
    wr,          \* write_bed_chunk's arguments
    data,        \* the caller's data buffer
    wrow,        \* write_bed_chunk's r
    major,       \* write_bed_header's argument
    opened,      \* fopen calls of the running call that returned a stream
    closed,      \* fclose calls of the running call
    allocs,      \* malloc calls of the running call that returned a buffer
    frees,       \* free calls of the running call
    file0,       \* the file's bytes when the running call was entered
    existed0,    \* whether it existed then
    faulted,     \* a stdio call of the running call failed for no reason in its arguments
    rawByte,     \* remap: a source byte
    decoded,     \* remap: the four codes read_bed_chunk stores for it
    encoded,     \* remap: the byte write_bed_chunk packs from them
    conv         \* remap: <<v, convert(v)>>

callVars == <<op, status, opened, closed, allocs, frees, file0, existed0, faulted>>
readVars == <<rd, out, row>>
writeVars == <<wr, data, wrow, major>>
buildVars == <<ndebug, charSigned, held>>
remapVars == <<rawByte, decoded, encoded, conv>>
vars == <<buildVars, fileExists, file, chunks, pc, callVars, readVars, writeVars, remapVars>>

\* The two bytes fwrite takes from &magic_number (0x1b6c) on a little-endian
\* target, the only byte order on which the BED magic comes out right.
MagicBytes == <<108, 27>>

\* Mode bytes passed to write_bed_header.
Majors == {0, 1}

\* Element strides of a rows x cols buffer: row-major and column-major.
StrideSet(rows, cols) == {<<cols, 1>>, <<1, rows>>}

\* Matrices passed as data: code (seed + i) mod 4 at element i.
Seeds == 0 .. 3
GenData(seed, n) == [i \in 1 .. n |-> (seed + i - 1) % 4]

FreshOut(n) == [i \in 1 .. n |-> Unwritten]

ReadArg(n, m, rs, cs, re, ce, st) ==
    [nrows |-> n, ncols |-> m, row_start |-> rs, col_start |-> cs,
     row_end |-> re, col_end |-> ce, strides |-> st]

\* Every window of an n x m matrix, aligned or not, with both layouts of out.
Windows(n, m) ==
    UNION { { ReadArg(n, m, w[1], w[2], w[3], w[4], st) :
                st \in StrideSet(w[3] - w[1], w[4] - w[2]) } :
            w \in { v \in (0 .. n) \X (0 .. m) \X (0 .. n) \X (0 .. m) :
                      v[1] <= v[3] /\ v[2] <= v[4] } }

\* The window [0, n) x [0, m).
FullWindow(n, m) == { ReadArg(n, m, 0, 0, n, m, st) : st \in StrideSet(n, m) }

\* The matrices a caller holds.
HeldSet == [nrows : 0 .. MaxRows, ncols : 0 .. MaxCols, seed : Seeds,
            layout : {"row-major", "column-major"}]

\* The strides of the first n rows of the caller's matrix.
HeldStrides(n) == IF held.layout = "row-major" THEN <<held.ncols, 1>> ELSE <<1, n>>

NoRead == ReadArg(0, 0, 0, 0, 0, 0, <<0, 1>>)
NoWrite == [ncols |-> 0, row_chunk |-> 0, strides |-> <<0, 1>>]

InitCall ==
    /\ pc = "idle"
    /\ op = "none"
    /\ status = 0
    /\ rd = NoRead
    /\ out = FreshOut(0)
    /\ row = 0
    /\ wr = NoWrite
    /\ data = GenData(0, 0)
    /\ wrow = 0
    /\ major = 0
    /\ opened = 0 /\ closed = 0 /\ allocs = 0 /\ frees = 0
    /\ file0 = <<>>
    /\ existed0 = FALSE
    /\ faulted = FALSE

InitRemapIdle ==
    /\ rawByte = 0
    /\ decoded = <<>>
    /\ encoded = -1
    /\ conv = <<>>

Init ==
    /\ ndebug \in BOOLEAN
    /\ charSigned \in BOOLEAN
    /\ held \in HeldSet
    /\ fileExists = FALSE
    /\ file = <<>>
    /\ chunks = -1
    /\ InitCall
    /\ InitRemapIdle

\* Entry of a call: the per-call bookkeeping.
Enter(name) ==
    /\ pc = "idle"
    /\ op' = name
    /\ opened' = 0 /\ closed' = 0 /\ allocs' = 0 /\ frees' = 0
    /\ file0' = file
    /\ existed0' = fileExists
    /\ faulted' = FALSE
    /\ UNCHANGED status

\* return v
Return(v) ==
    /\ status' = v
    /\ pc' = "returned"

\* The caller goes on: the call's arguments and locals are gone.  It keeps the
\* matrix it wrote while the file is the header and that one chunk; a read
\* does not touch what it keeps.
caller_continues ==
    /\ pc = "returned"
    /\ pc' = "idle"
    /\ op' = "none"
    /\ status' = 0
    /\ rd' = NoRead
    /\ out' = FreshOut(0)
    /\ row' = 0
    /\ wrow' = 0
    /\ major' = 0
    /\ IF chunks = 1 \/ op = "read" THEN UNCHANGED <<wr, data>>
                                     ELSE wr' = NoWrite /\ data' = GenData(0, 0)
    /\ opened' = 0 /\ closed' = 0 /\ allocs' = 0 /\ frees' = 0
    /\ file0' = <<>>
    /\ existed0' = FALSE
    /\ faulted' = FALSE
    /\ UNCHANGED <<buildVars, fileExists, file, chunks, remapVars>>

\* ----------------------------------------------------------- read_bed_chunk
\* Lines 31-33.
AssertsHold(a) ==
    /\ SizeofUint64 = 4
    /\ SizeofChar = 1
    /\ a.col_start % 4 = 0

\* Lines 18-38: entry with arguments from Args, the assertions.
read_bed_chunk(Args) ==
    /\ pc = "idle"
    /\ \E a \in Args :
        /\ Enter("read")
        /\ rd' = a
        /\ out' = FreshOut((a.row_end - a.row_start) * (a.col_end - a.col_start))
        /\ pc' = IF ~ndebug /\ ~AssertsHold(a) THEN "aborted" ELSE "rd_fopen"
        /\ UNCHANGED <<buildVars, fileExists, file, chunks, row, writeVars, remapVars>>

\* Lines 40-45.
rd_fopen ==
    /\ pc = "rd_fopen"
    /\ \/ /\ fileExists
          /\ opened' = opened + 1
          /\ pc' = "rd_malloc"
          /\ UNCHANGED <<status, faulted>>
       \/ /\ ~fileExists
          /\ Return(-1)
          /\ UNCHANGED <<opened, faulted>>
       \/ /\ fileExists
          /\ faulted' = TRUE
          /\ Return(-1)
          /\ UNCHANGED opened
    /\ UNCHANGED <<buildVars, fileExists, file, chunks, op, closed, allocs, frees,
                   file0, existed0, readVars, writeVars, remapVars>>

\* Lines 47-55.
rd_malloc_leak ==
    /\ pc = "rd_malloc"
    /\ \/ /\ allocs' = allocs + 1
          /\ row' = rd.row_start
          /\ pc' = "rd_loop"
          /\ UNCHANGED <<status, closed, faulted>>
       \/ /\ faulted' = TRUE
          /\ Return(-1)
          /\ UNCHANGED <<allocs, row, closed>>
    /\ UNCHANGED <<buildVars, fileExists, file, chunks, op, opened, frees,
                   file0, existed0, rd, out, writeVars, remapVars>>

rd_malloc ==
    /\ pc = "rd_malloc"
    /\ \/ /\ allocs' = allocs + 1
          /\ row' = rd.row_start
          /\ pc' = "rd_loop"
          /\ UNCHANGED <<status, closed, faulted>>
       \/ /\ faulted' = TRUE
          /\ closed' = closed + 1
          /\ Return(-1)
          /\ UNCHANGED <<allocs, row>>
    /\ UNCHANGED <<buildVars, fileExists, file, chunks, op, opened, frees,
                   file0, existed0, rd, out, writeVars, remapVars>>

\* Lines 57-103: one pass of the while loop, or its exit.
rd_loop ==
    /\ pc = "rd_loop"
    /\ \/ /\ row < rd.row_end
          /\ RowChunk(rd.col_start, rd.col_end) = 0 \/ BytesThere(file, rd, row)
          /\ out' = DecodeRow(out, Buff(file, rd, row), rd.col_start, rd, row, charSigned)
          /\ row' = row + 1
          /\ UNCHANGED <<pc, status, frees, closed, faulted>>
       \/ /\ row < rd.row_end
          /\ RowChunk(rd.col_start, rd.col_end) > 0
          /\ ~BytesThere(file, rd, row)
          /\ frees' = frees + 1
          /\ closed' = closed + 1
          /\ Return(-1)
          /\ UNCHANGED <<out, row, faulted>>
       \/ /\ row < rd.row_end
          /\ RowChunk(rd.col_start, rd.col_end) > 0
          /\ faulted' = TRUE
          /\ frees' = frees + 1
          /\ closed' = closed + 1
          /\ Return(-1)
          /\ UNCHANGED <<out, row>>
       \/ /\ row >= rd.row_end
          /\ frees' = frees + 1
          /\ closed' = closed + 1
          /\ Return(0)
          /\ UNCHANGED <<out, row, faulted>>
    /\ UNCHANGED <<buildVars, fileExists, file, chunks, op, opened, allocs,
                   file0, existed0, rd, writeVars, remapVars>>

\* --------------------------------------------------------- write_bed_header
\* Line 22: entry.
write_bed_header ==
    \E m \in Majors :
        /\ Enter("header")
        /\ major' = m
        /\ pc' = "wh_fopen"
        /\ UNCHANGED <<buildVars, fileExists, file, chunks, readVars, wr, data, wrow,
                       remapVars>>

\* Lines 24-29: fopen(filepath, "wb") creates the file or truncates it.
wh_fopen_append ==
    /\ pc = "wh_fopen"
    /\ \/ /\ fileExists' = TRUE
          /\ file' = file
          /\ chunks' = -1
          /\ opened' = opened + 1
          /\ pc' = "wh_magic"
          /\ UNCHANGED <<status, faulted>>
       \/ /\ faulted' = TRUE
          /\ chunks' = -1
          /\ Return(-1)
          /\ UNCHANGED <<fileExists, file, opened>>
    /\ UNCHANGED <<buildVars, op, closed, allocs, frees, file0, existed0,
                   readVars, writeVars, remapVars>>

wh_fopen ==
    /\ pc = "wh_fopen"
    /\ \/ /\ fileExists' = TRUE
          /\ file' = <<>>
          /\ chunks' = -1
          /\ opened' = opened + 1
          /\ pc' = "wh_magic"
          /\ UNCHANGED <<status, faulted>>
       \/ /\ faulted' = TRUE
          /\ chunks' = -1
          /\ Return(-1)
          /\ UNCHANGED <<fileExists, file, opened>>
    /\ UNCHANGED <<buildVars, op, closed, allocs, frees, file0, existed0,
                   readVars, writeVars, remapVars>>

\* Lines 31-37: the magic number; a failing fwrite may have put out part of it.
wh_magic ==
    /\ pc = "wh_magic"
    /\ \/ /\ file' = file \o MagicBytes
          /\ pc' = "wh_major"
          /\ UNCHANGED <<status, closed, faulted>>
       \/ /\ \E k \in 0 .. Len(MagicBytes) - 1 : file' = file \o SubSeq(MagicBytes, 1, k)
          /\ faulted' = TRUE
          /\ closed' = closed + 1
          /\ Return(-1)
    /\ UNCHANGED <<buildVars, fileExists, chunks, op, opened, allocs, frees, file0,
                   existed0, readVars, writeVars, remapVars>>

\* Lines 39-47: the mode byte, fclose, return.
wh_major ==
    /\ pc = "wh_major"
    /\ \/ /\ file' = file \o <<major>>
          /\ chunks' = 0
          /\ closed' = closed + 1
          /\ Return(0)
          /\ UNCHANGED faulted
       \/ /\ faulted' = TRUE
          /\ closed' = closed + 1
          /\ Return(-1)
          /\ UNCHANGED <<file, chunks>>
    /\ UNCHANGED <<buildVars, fileExists, op, opened, allocs, frees, file0,
                   existed0, readVars, writeVars, remapVars>>

\* ---------------------------------------------------------- write_bed_chunk
\* Line 50: entry, with the first n rows of the caller's matrix.  The caller
\* appends to a file whose header and chunks were written; the guard keeps the
\* file within MaxRows rows.
write_bed_chunk ==
    \E n \in 0 .. held.nrows :
        /\ pc = "idle"
        /\ chunks >= 0
        /\ Len(file) + n * RowSize(held.ncols) <= HeaderSize + MaxRows * RowSize(held.ncols)
        /\ Enter("chunk")
        /\ wr' = [ncols |-> held.ncols, row_chunk |-> n, strides |-> HeldStrides(n)]
        /\ data' = GenData(held.seed, n * held.ncols)
        /\ wrow' = 0
        /\ pc' = "wc_fopen"
        /\ UNCHANGED <<buildVars, fileExists, file, chunks, readVars, major, remapVars>>

\* Lines 52-57: fopen(filepath, "ab") creates the file when it is absent and
\* keeps its bytes otherwise.
wc_fopen_truncate ==
    /\ pc = "wc_fopen"
    /\ \/ /\ fileExists' = TRUE
          /\ file' = <<>>
          /\ opened' = opened + 1
          /\ pc' = "wc_loop"
          /\ UNCHANGED <<status, faulted, chunks>>
       \/ /\ faulted' = TRUE
          /\ chunks' = -1
          /\ Return(-1)
          /\ UNCHANGED <<fileExists, file, opened>>
    /\ UNCHANGED <<buildVars, op, closed, allocs, frees, file0,
                   existed0, readVars, writeVars, remapVars>>

wc_fopen ==
    /\ pc = "wc_fopen"
    /\ \/ /\ fileExists' = TRUE
          /\ opened' = opened + 1
          /\ pc' = "wc_loop"
          /\ UNCHANGED <<file, status, faulted, chunks>>
       \/ /\ faulted' = TRUE
          /\ chunks' = -1
          /\ Return(-1)
          /\ UNCHANGED <<fileExists, file, opened>>
    /\ UNCHANGED <<buildVars, op, closed, allocs, frees, file0,
                   existed0, readVars, writeVars, remapVars>>

\* Lines 59-97: one pass of the row loop (all its fwrite calls), or its exit.
\* A failing fwrite leaves the bytes written before it in the file.
wc_loop ==
    /\ pc = "wc_loop"
    /\ \/ /\ wrow < wr.row_chunk
          /\ file' = file \o RowBytes(data, wr.strides, wrow, wr.ncols)
          /\ wrow' = wrow + 1
          /\ UNCHANGED <<pc, status, closed, faulted, chunks>>
       \/ /\ wrow < wr.row_chunk
          /\ \E k \in 0 .. Len(RowBytes(data, wr.strides, wrow, wr.ncols)) - 1 :
                file' = file \o SubSeq(RowBytes(data, wr.strides, wrow, wr.ncols), 1, k)
          /\ faulted' = TRUE
          /\ chunks' = -1
          /\ closed' = closed + 1
          /\ Return(-1)
          /\ UNCHANGED wrow
       \/ /\ wrow >= wr.row_chunk
          /\ chunks' = IF chunks < 0 THEN -1 ELSE IF chunks = 0 THEN 1 ELSE 2
          /\ closed' = closed + 1
          /\ Return(0)
          /\ UNCHANGED <<file, wrow, faulted>>
    /\ UNCHANGED <<buildVars, fileExists, op, opened, allocs, frees, file0,
                   existed0, readVars, wr, data, major, remapVars>>

\* ------------------------------------------------------------ the program
\* The three entry points called in any order on one path, from an absent
\* file; read_bed_chunk is asked for the whole matrix.
Next ==
    \/ read_bed_chunk(FullWindow(held.nrows, held.ncols))
    \/ rd_fopen
    \/ rd_malloc
    \/ rd_loop
    \/ write_bed_header
    \/ wh_fopen
    \/ wh_magic
    \/ wh_major
    \/ write_bed_chunk
    \/ wc_fopen
    \/ wc_loop
    \/ caller_continues

Spec == Init /\ [][Next]_vars

\* ------------------------------------------------- reading written files
\* Lines 59-94 of the writer, all rows: the bytes a chunk adds to the file.
RECURSIVE ChunkBytes(_, _, _, _)
ChunkBytes(d, strides, n, ncols) ==
    IF n = 0 THEN <<>>
    ELSE ChunkBytes(d, strides, n - 1, ncols) \o RowBytes(d, strides, n - 1, ncols)

\* The file write_bed_header and one write_bed_chunk leave.
WrittenFile(mj, d, strides, n, ncols) ==
    MagicBytes \o <<mj>> \o ChunkBytes(d, strides, n, ncols)

\* Bytes missing at the end of a file that lost its tail.
Cuts == {0, 1}

\* The file is absent, or was written from the matrix the caller holds and
\* may have lost its last byte.
InitRead ==
    /\ ndebug \in BOOLEAN
    /\ charSigned \in BOOLEAN
    /\ held \in HeldSet
    /\ InitRemapIdle
    /\ pc = "idle" /\ op = "none" /\ status = 0
    /\ rd = NoRead /\ out = FreshOut(0) /\ row = 0
    /\ wrow = 0 /\ major = 0
    /\ opened = 0 /\ closed = 0 /\ allocs = 0 /\ frees = 0
    /\ file0 = <<>> /\ existed0 = FALSE /\ faulted = FALSE
    /\ wr = [ncols |-> held.ncols, row_chunk |-> held.nrows, strides |-> HeldStrides(held.nrows)]
    /\ data = GenData(held.seed, held.nrows * held.ncols)
    /\ \E t \in Cuts :
         LET f == WrittenFile(1, data, wr.strides, wr.row_chunk, wr.ncols)
         IN  /\ t <= Len(f) - HeaderSize
             /\ \/ /\ fileExists = TRUE
                   /\ file = SubSeq(f, 1, Len(f) - t)
                   /\ chunks = IF t = 0 THEN 1 ELSE -1
                \/ /\ t = 0
                   /\ fileExists = FALSE
                   /\ file = <<>>
                   /\ chunks = -1

\* read_bed_chunk is asked for every window of the matrix.
NextRead ==
    \/ read_bed_chunk(Windows(held.nrows, held.ncols))
    \/ rd_fopen
    \/ rd_malloc
    \/ rd_loop
    \/ caller_continues

SpecRead == InitRead /\ [][NextRead]_vars

\* ------------------------------------------------------------- the remap
\* Lines 82-96 of the reader on one source byte: the codes of its four pairs.
apply_unpack ==
    /\ decoded = <<>>
    /\ decoded' = [j \in 1 .. 4 |-> GroupValue(rawByte, j - 1, charSigned)]
    /\ UNCHANGED <<buildVars, fileExists, file, chunks, pc, callVars, readVars,
                   writeVars, rawByte, encoded, conv>>

\* Lines 64-70 of the writer on those four codes.
apply_pack ==
    /\ decoded # <<>>
    /\ encoded = -1
    /\ encoded' = FullGroupByte(decoded, <<4, 1>>, 0, 0)
    /\ UNCHANGED <<buildVars, fileExists, file, chunks, pc, callVars, readVars,
                   writeVars, rawByte, decoded, conv>>

\* Lines 11-20 of the writer on one code.
apply_convert ==
    \E v \in 0 .. 3 :
        /\ conv' = <<v, convert(v)>>
        /\ UNCHANGED <<buildVars, fileExists, file, chunks, pc, callVars, readVars,
                       writeVars, rawByte, decoded, encoded>>

InitRemap ==
    /\ ndebug \in BOOLEAN
    /\ charSigned \in BOOLEAN
    /\ held = [nrows |-> 0, ncols |-> 0, seed |-> 0, layout |-> "row-major"]
    /\ fileExists = FALSE
    /\ file = <<>>
    /\ chunks = -1
    /\ InitCall
    /\ rawByte \in 0 .. 255
    /\ decoded = <<>>
    /\ encoded = -1
    /\ conv = <<>>

NextRemap ==
    \/ apply_unpack
    \/ apply_pack
    \/ apply_convert

SpecRemap == InitRemap /\ [][NextRemap]_vars

\* The rows from r on, decoded as rd_loop decodes them when no read fails.
RECURSIVE DecodeRows(_, _, _, _, _)
DecodeRows(o, f, a, r, signed) ==
    IF r < a.row_end
    THEN DecodeRows(DecodeRow(o, Buff(f, a, r), a.col_start, a, r, signed),
                    f, a, r + 1, signed)
    ELSE o

\* ================================================================ claims
Returned(name) == pc = "returned" /\ op = name

\* The 2-bit pair j (0 is the least significant) of byte b.
Pair(b, j) == (b \div Pow4(j)) % 4

\* ceil(n / 4)
CeilQuarter(n) == IF n % 4 = 0 THEN n \div 4 ELSE n \div 4 + 1

\* The maps between raw and natural codes as tables.
ReaderTable(x) == CASE x = 0 -> 0 [] x = 1 -> 3 [] x = 2 -> 1 [] x = 3 -> 2
WriterTable(v) == CASE v = 0 -> 0 [] v = 1 -> 2 [] v = 2 -> 3 [] v = 3 -> 1
Swap12(x) == CASE x = 1 -> 2 [] x = 2 -> 1 [] OTHER -> x

NothingWritten == \A i \in DOMAIN out : out[i] = Unwritten

\* C1: a read of the whole matrix from a file made by write_bed_header and one
\* write_bed_chunk of that matrix, with no stdio call failing for a reason
\* outside the arguments, returns 0 and leaves out[r*strides[0] + c*strides[1]]
\* equal to data[r*strides[0] + c*strides[1]] for every r < nrows, c < ncols.
C1_Case ==
    /\ Returned("read")
    /\ chunks = 1
    /\ wr.row_chunk = rd.nrows /\ wr.ncols = rd.ncols
    /\ rd.row_start = 0 /\ rd.col_start = 0
    /\ rd.row_end = rd.nrows /\ rd.col_end = rd.ncols
    /\ ~faulted

C2_Involution ==
    /\ decoded # <<>> =>
          \A j \in 1 .. 4 : decoded[j] = Swap12(Pair(rawByte, j - 1))
    /\ conv # <<>> => conv[2] = 64 * Swap12(conv[1])

\* C2 amended: read_bed_chunk stores 0 for raw 0, 3 for raw 1, 1 for raw 2 and
\* 2 for raw 3 (with char signed or unsigned); convert maps 0->0, 1->2, 2->3,
\* 3->1, in the two top bits; packing the four codes read_bed_chunk stores for
\* a byte gives that byte back, so the writer's map is the inverse of the
\* reader's, and neither is an involution.
C2_Remap ==
    /\ decoded # <<>> =>
          \A j \in 1 .. 4 : decoded[j] = ReaderTable(Pair(rawByte, j - 1))
    /\ conv # <<>> => conv[2] = 64 * WriterTable(conv[1])
    /\ encoded # -1 => encoded = rawByte

C2_Witness ==
    /\ rawByte = 228
    /\ charSigned
    /\ decoded = <<0, 3, 1, 2>>
    /\ encoded = 228
    /\ conv = <<2, 192>>

\* C3: on a file of 3 + nrows*ceil(ncols/4) bytes, a read of a window that
\* starts at a multiple of 4 returns 0 unless a stdio call fails for a reason
\* outside the arguments, and then out[(r-row_start)*strides[0] +
\* (c-col_start)*strides[1]] is the value the decode of the window
\* [0,nrows) x [0,ncols) yields for (r, c), for every r, c of the window.
C3_Case ==
    /\ Returned("read")
    /\ rd.col_start % 4 = 0
    /\ fileExists
    /\ Len(file) = HeaderSize + rd.nrows * CeilQuarter(rd.ncols)

C4_HeaderBytes ==
    (Returned("header") /\ status = 0) =>
        /\ fileExists
        /\ file = <<108, 27, major>>

C4_Witness ==
    /\ Returned("header")
    /\ status = 0
    /\ existed0
    /\ Len(file0) > 3
    /\ major = 1
    /\ file0[3] = 0

\* C5: when read_bed_chunk returns a failure status no element of out has
\* been written; stated for the failures that lie in the file alone (it is
\* absent, or ends before the last row asked for), every stdio call working.
C5_NoPartialDecode ==
    (Returned("read") /\ status = -1 /\ ~faulted) => NothingWritten

\* C6: when write_bed_chunk returns 0 the bytes the file held at entry are
\* unchanged and the file is longer by row_chunk * ceil(ncols/4) bytes; a file
\* made by write_bed_header and returned chunks is the 3-byte header followed
\* by whole rows of ceil(ncols/4) bytes.
C6_AppendOnly ==
    /\ (Returned("chunk") /\ status = 0) =>
          /\ Len(file) = Len(file0) + wr.row_chunk * CeilQuarter(wr.ncols)
          /\ SubSeq(file, 1, Len(file0)) = file0
    /\ chunks >= 0 =>
          /\ Len(file) >= HeaderSize
          /\ SubSeq(file, 1, 2) = <<108, 27>>
          /\ IF CeilQuarter(held.ncols) = 0
             THEN Len(file) = HeaderSize
             ELSE (Len(file) - HeaderSize) % CeilQuarter(held.ncols) = 0

C6_Witness ==
    /\ Returned("chunk")
    /\ status = 0
    /\ chunks = 2
    /\ wr.row_chunk = 1
    /\ wr.ncols = 5
    /\ Len(file0) = 5
    /\ Len(file) = 7

\* C7: when write_bed_chunk returns a failure status the file is as it was at
\* entry.
C7_FailedWriteNoEffect ==
    (Returned("chunk") /\ status = -1) => (file = file0 /\ fileExists = existed0)

\* C8: when write_bed_chunk returns 0, each row r it wrote takes ceil(ncols/4)
\* bytes; the code of column c, remapped 0->0, 1->2, 2->3, 3->1, is in bits
\* [2(c mod 4), 2(c mod 4) + 2) of byte c div 4 of the row; and with
\* k = ncols mod 4 > 0 the last byte of the row has no bit set at or above 2k.
C8_Case ==
    /\ Returned("chunk")
    /\ status = 0

C8_PartialLastByte ==
    C8_Case =>
        \A r \in 0 .. wr.row_chunk - 1 :
            LET base == Len(file0) + r * CeilQuarter(wr.ncols)
                k    == wr.ncols % 4
            IN  /\ \A c \in 0 .. wr.ncols - 1 :
                      Pair(file[base + (c \div 4) + 1], c % 4)
                        = WriterTable(DataAt(data, wr.strides, r, c))
                /\ k > 0 => file[base + CeilQuarter(wr.ncols)] < Pow4(k)

C8_Witness ==
    /\ C8_Case
    /\ wr.row_chunk = 2
    /\ wr.ncols = 6
    /\ held.seed = 1
    /\ Len(file) = Len(file0) + 4
    /\ file[Len(file)] # 0

\* C9: a call never closes more streams than it opened nor frees more buffers
\* than it allocated, it opens and allocates at most one, and when it returns,
\* with whatever status, every stream it opened is closed and every buffer it
\* allocated is freed.
C9_Resources ==
    /\ closed <= opened /\ opened <= 1
    /\ frees <= allocs /\ allocs <= 1
    /\ pc = "returned" => (closed = opened /\ frees = allocs)

C9_Witness ==
    /\ Returned("read")
    /\ status = -1
    /\ faulted
    /\ opened = 1 /\ closed = 1
    /\ allocs = 0 /\ frees = 0

\* C10: a call of read_bed_chunk with col_start not a multiple of 4 never
\* returns 0 with an element of out written.
C10_UnalignedRejected ==
    (Returned("read") /\ rd.col_start % 4 # 0 /\ status = 0) => NothingWritten

====
